---- MODULE Spec2Model ----
(***************************************************************************)
(* Model of charm metadata handling (meta.go): ReadMeta (schema coercion,  *)
(* entity construction, Meta.Check), Meta.GetYAML and the helpers they     *)
(* use.  Go strings are sequences of one-character strings, so that the    *)
(* prefix test and the count pattern are computed on the characters; Go    *)
(* maps and slices that may be nil are records [nil, m] and [nil, l].      *)
(***************************************************************************)
EXTENDS Integers, Sequences, FiniteSets, TLC

VARIABLES
    doc,    \* the document tree given to ReadMeta (output of yaml.Unmarshal)
    meta,   \* the record under consideration (ReadMeta's result, Check's receiver)
    err,    \* the error returned by the last operation
    pc,     \* position: "input", "read", "built", "checked"
    prev,   \* the record that GetYAML encoded, for comparison after re-reading
    round   \* number of GetYAML calls made so far

vars == <<doc, meta, err, pc, prev, round>>

(***************************************************************************)
(* Bounds of the model.                                                    *)
(***************************************************************************)
MaxRels == 2      \* relations of a record given to Check, over the three mappings
MaxDocRels == 1   \* relations of a document, over the three mappings
MaxStores == 1    \* storage entries of a record or document
MaxCountLen == 3  \* characters of a count string
MaxRounds == 1    \* encode/decode round trips per behaviour

(***************************************************************************)
(* Constants of meta.go.                                                   *)
(***************************************************************************)
ScopeGlobal == <<"g", "l", "o", "b", "a", "l">>
ScopeContainer == <<"c", "o", "n", "t", "a", "i", "n", "e", "r">>
RoleProvider == <<"p", "r", "o", "v", "i", "d", "e", "r">>
RoleRequirer == <<"r", "e", "q", "u", "i", "r", "e", "r">>
RolePeer == <<"p", "e", "e", "r">>
StorageBlock == <<"b", "l", "o", "c", "k">>
StorageFilesystem == <<"f", "i", "l", "e", "s", "y", "s", "t", "e", "m">>

\* Character sequences used as names, interfaces and locations.
s_juju == <<"j", "u", "j", "u">>
s_jujuDash == <<"j", "u", "j", "u", "-">>
s_jujuInfo == <<"j", "u", "j", "u", "-", "i", "n", "f", "o">>
s_db == <<"d", "b">>
s_http == <<"h", "t", "t", "p">>
s_srv == <<"/", "s", "r", "v">>
s_ext4 == <<"e", "x", "t", "4">>
s_precise == <<"p", "r", "e", "c", "i", "s", "e">>
s_badSeries == <<"P", "!">>
s_name == <<"a">>
s_summary == <<"b">>
s_description == <<"c">>
s_web == <<"w", "e", "b">>

\* The map with no keys, and nil-able Go maps and slices.
EmptyMap == [x \in {} |-> x]
NilMap == [nil |-> TRUE, m |-> EmptyMap]
MkMap(f) == [nil |-> FALSE, m |-> f]
NilList == [nil |-> TRUE, l |-> <<>>]
MkList(s) == [nil |-> FALSE, l |-> s]

\* Errors.  class "charm" is an error of Meta.Check, class "metadata" an
\* error of the schema; at names the place in the code that returned it
\* and name the relation or storage entry the message names.
NoErr == [class |-> "none", kind |-> "none", at |-> "none", name |-> <<>>]
CheckErr(kind, at, name) == [class |-> "charm", kind |-> kind, at |-> at, name |-> name]
SchemaErr(at) == [class |-> "metadata", kind |-> "schema", at |-> at, name |-> <<>>]
ReadErr(kind) == [class |-> "read", kind |-> kind, at |-> "input", name |-> <<>>]

\* The value of a *Meta that is nil.
NoMeta == [isNil |-> TRUE]

(***************************************************************************)
(* Relation.IsImplicit, reservedName, IsValidSeries.                       *)
(***************************************************************************)
HasPrefix(s, p) == Len(s) >= Len(p) /\ SubSeq(s, 1, Len(p)) = p

IsImplicit(r) ==
    /\ r.Name = s_jujuInfo
    /\ r.Interface = s_jujuInfo
    /\ r.Role = RoleProvider

\* Fault variant: the "juju-" prefix is not tested.
reservedName_NoPrefix(name) == name = s_juju

reservedName(name) == name = s_juju \/ HasPrefix(name, s_jujuDash)

\* The series predicate lives outside meta.go: lower-case letters followed by
\* lower-case letters or digits.
LowerLetters == {"a", "b", "c", "d", "e", "f", "g", "h", "i", "j", "k", "l", "m",
                 "n", "o", "p", "q", "r", "s", "t", "u", "v", "w", "x", "y", "z"}
Digits == {"0", "1", "2", "3", "4", "5", "6", "7", "8", "9"}
IsValidSeries(s) ==
    /\ Len(s) >= 1
    /\ s[1] \in LowerLetters
    /\ \A i \in 1..Len(s) : s[i] \in LowerLetters \cup Digits

(***************************************************************************)
(* Meta.Check.  The loops range over Go maps, whose iteration order is     *)
(* unspecified: when several entries of one map fail, any of them may be   *)
(* the one whose error is returned, so each step yields the set of errors  *)
(* it can return.                                                          *)
(***************************************************************************)
\* Fault variant: relations for which IsImplicit holds skip the reserved checks.
relationErr_ImplicitBypass(m, name, rel, role, at, names) ==
    IF rel.Name # name THEN CheckErr("mismatched relation name", at, name)
    ELSE IF rel.Role # role THEN CheckErr("mismatched role", at, name)
    ELSE IF /\ (~m.Subordinate \/ role # RoleRequirer \/ rel.Scope # ScopeContainer)
            /\ ~IsImplicit(rel)
            /\ reservedName(name)
         THEN CheckErr("reserved relation name", at, name)
    ELSE IF role # RoleRequirer /\ ~IsImplicit(rel) /\ reservedName(rel.Interface)
         THEN CheckErr("reserved interface", at, name)
    ELSE IF name \in names THEN CheckErr("duplicated relation name", at, name)
    ELSE NoErr

\* The body of the loop in checkRelations for one entry; names holds the
\* names recorded so far.
relationErr(m, name, rel, role, at, names) ==
    IF rel.Name # name THEN CheckErr("mismatched relation name", at, name)
    ELSE IF rel.Role # role THEN CheckErr("mismatched role", at, name)
    ELSE IF /\ (~m.Subordinate \/ role # RoleRequirer \/ rel.Scope # ScopeContainer)
            /\ reservedName(name)
         THEN CheckErr("reserved relation name", at, name)
    ELSE IF role # RoleRequirer /\ reservedName(rel.Interface)
         THEN CheckErr("reserved interface", at, name)
    ELSE IF name \in names THEN CheckErr("duplicated relation name", at, name)
    ELSE NoErr

\* Keys of one map are distinct, so the names recorded earlier in the same
\* loop never equal the current key: only the names of the maps checked
\* before matter.
checkRelations(m, src, role, at, names) ==
    {relationErr(m, name, src.m[name], role, at, names) : name \in DOMAIN src.m}
        \ {NoErr}

\* Fault variant: any requires relation satisfies a subordinate.
subordinateErr_AnyScope(m) ==
    IF m.Subordinate /\ ~(~m.Requires.nil /\ DOMAIN m.Requires.m # {})
    THEN {CheckErr("container scope", "subordinate", <<>>)}
    ELSE {}

subordinateErr(m) ==
    IF m.Subordinate
       /\ ~(~m.Requires.nil
            /\ \E name \in DOMAIN m.Requires.m : m.Requires.m[name].Scope = ScopeContainer)
    THEN {CheckErr("container scope", "subordinate", <<>>)}
    ELSE {}

seriesErr(m) ==
    IF m.Series # <<>> /\ ~IsValidSeries(m.Series)
    THEN {CheckErr("invalid series", "series", <<>>)}
    ELSE {}

\* Fault variant: the filesystem list is not tested against the type.
storageErr_LocationOnly(name, store, names) ==
    IF store.Location # <<>> /\ store.Type # StorageFilesystem
        THEN CheckErr("location", "storage", name)
    ELSE IF store.Type = <<>> THEN CheckErr("type must be specified", "storage", name)
    ELSE IF store.CountMin < 0 THEN CheckErr("invalid minimum count", "storage", name)
    ELSE IF store.CountMax = 0 \/ store.CountMax < -1
        THEN CheckErr("invalid maximum count", "storage", name)
    ELSE NoErr

\* The body of the storage loop for one entry.  names was emptied before
\* the loop and only holds other keys of the same map.
storageErr(name, store, names) ==
    IF store.Location # <<>> /\ store.Type # StorageFilesystem
        THEN CheckErr("location", "storage", name)
    ELSE IF ~store.Filesystem.nil /\ store.Type # StorageFilesystem
        THEN CheckErr("filesystem", "storage", name)
    ELSE IF store.Type = <<>> THEN CheckErr("type must be specified", "storage", name)
    ELSE IF store.CountMin < 0 THEN CheckErr("invalid minimum count", "storage", name)
    ELSE IF store.CountMax = 0 \/ store.CountMax < -1
        THEN CheckErr("invalid maximum count", "storage", name)
    ELSE IF name \in names THEN CheckErr("duplicated storage name", "storage", name)
    ELSE NoErr

checkStorage(m) ==
    {storageErr(name, m.Storage.m[name], DOMAIN m.Storage.m \ {name}) :
        name \in DOMAIN m.Storage.m} \ {NoErr}

\* Fault variant: the recorded names are forgotten between the mappings.
Check_NamesPerMapping(m) ==
    LET e1 == checkRelations(m, m.Provides, RoleProvider, "provides", {})
        e2 == checkRelations(m, m.Requires, RoleRequirer, "requires", {})
        e3 == checkRelations(m, m.Peers, RolePeer, "peers", {})
    IN  IF e1 # {} THEN e1
        ELSE IF e2 # {} THEN e2
        ELSE IF e3 # {} THEN e3
        ELSE IF subordinateErr(m) # {} THEN subordinateErr(m)
        ELSE IF seriesErr(m) # {} THEN seriesErr(m)
        ELSE IF checkStorage(m) # {} THEN checkStorage(m)
        ELSE {NoErr}

\* Fault variant: the series rule runs before the subordinate rule.
Check_SeriesBeforeSubordinate(m) ==
    LET e1 == checkRelations(m, m.Provides, RoleProvider, "provides", {})
        n1 == DOMAIN m.Provides.m
        e2 == checkRelations(m, m.Requires, RoleRequirer, "requires", n1)
        n2 == n1 \cup DOMAIN m.Requires.m
        e3 == checkRelations(m, m.Peers, RolePeer, "peers", n2)
    IN  IF e1 # {} THEN e1
        ELSE IF e2 # {} THEN e2
        ELSE IF e3 # {} THEN e3
        ELSE IF seriesErr(m) # {} THEN seriesErr(m)
        ELSE IF subordinateErr(m) # {} THEN subordinateErr(m)
        ELSE IF checkStorage(m) # {} THEN checkStorage(m)
        ELSE {NoErr}

\* The set of errors Check can return for m; {NoErr} when it returns nil.
Check(m) ==
    LET e1 == checkRelations(m, m.Provides, RoleProvider, "provides", {})
        n1 == DOMAIN m.Provides.m
        e2 == checkRelations(m, m.Requires, RoleRequirer, "requires", n1)
        n2 == n1 \cup DOMAIN m.Requires.m
        e3 == checkRelations(m, m.Peers, RolePeer, "peers", n2)
    IN  IF e1 # {} THEN e1
        ELSE IF e2 # {} THEN e2
        ELSE IF e3 # {} THEN e3
        ELSE IF subordinateErr(m) # {} THEN subordinateErr(m)
        ELSE IF seriesErr(m) # {} THEN seriesErr(m)
        ELSE IF checkStorage(m) # {} THEN checkStorage(m)
        ELSE {NoErr}

(***************************************************************************)
(* The document tree: what yaml.Unmarshal hands to the schema.  A value is *)
(* a record tagged by its kind; a map's m is a function over the keys that *)
(* are present (field names are strings, relation and storage names are    *)
(* character sequences).                                                   *)
(***************************************************************************)
Nil == [k |-> "nil"]
Str(s) == [k |-> "str", s |-> s]
Num(i) == [k |-> "int", i |-> i]
Bool(b) == [k |-> "bool", b |-> b]
List(l) == [k |-> "list", l |-> l]
Map(f) == [k |-> "map", m |-> f]

\* A field that is present only when its value is given.
Absent == [k |-> "absent"]
Opt(key, v) == IF v.k = "absent" THEN EmptyMap ELSE key :> v

(***************************************************************************)
(* The checkers of the schema package, as meta.go composes them.  A        *)
(* checker yields [ok, omit, v]: ok is FALSE for an error, omit is TRUE    *)
(* when the field is left out of the output (schema.Omit).                 *)
(***************************************************************************)
Ok(v) == [ok |-> TRUE, omit |-> FALSE, v |-> v]
Omitted == [ok |-> TRUE, omit |-> TRUE, v |-> Nil]
Fail == [ok |-> FALSE, omit |-> FALSE, v |-> Nil]

stringC(v) == IF v.k = "str" THEN Ok(v.s) ELSE Fail
boolC(v) == IF v.k = "bool" THEN Ok(v.b) ELSE Fail
intC(v) == IF v.k = "int" THEN Ok(v.i) ELSE Fail

\* schema.List(schema.String())
stringListC(v) ==
    IF v.k = "list" /\ \A i \in 1..Len(v.l) : v.l[i].k = "str"
    THEN Ok([i \in 1..Len(v.l) |-> v.l[i].s])
    ELSE Fail

\* One field of a FieldMap: the value the checker is applied to is the
\* field's value when the key is present and else the default, which may
\* be schema.Omit (the field is left out) or missing (the checker gets
\* nothing and fails).
FieldValue(f, key, dflt) == IF key \in DOMAIN f THEN f[key] ELSE dflt
Checked(v, result) ==
    IF v.k = "omit" THEN Omitted
    ELSE IF v.k = "none" THEN Fail
    ELSE result
DfltOmit == [k |-> "omit"]
DfltNone == [k |-> "none"]

\* ifaceSchema: the full form of a relation.
ifaceSchema(f) ==
    LET iface == Checked(FieldValue(f, "interface", DfltNone),
            stringC(FieldValue(f, "interface", DfltNone)))
        limit == IF "limit" \notin DOMAIN f THEN Ok(Nil)
                 ELSE IF f["limit"].k \in {"nil", "int"} THEN Ok(f["limit"])
                 ELSE Fail
        scopeC(v) == IF v.k = "str" /\ v.s \in {ScopeGlobal, ScopeContainer}
                     THEN Ok(v.s) ELSE Fail
        scope == Checked(FieldValue(f, "scope", Str(ScopeGlobal)),
            scopeC(FieldValue(f, "scope", Str(ScopeGlobal))))
        optional == Checked(FieldValue(f, "optional", Bool(FALSE)),
            boolC(FieldValue(f, "optional", Bool(FALSE))))
    IN  IF iface.ok /\ limit.ok /\ scope.ok /\ optional.ok
        THEN Ok([interface |-> iface.v, limit |-> limit.v,
                 optional |-> optional.v, scope |-> scope.v])
        ELSE Fail

\* Fault variant: a map without limit gets nil, not the role's default.
ifaceExpC_NoDefault(limit, v) ==
    IF v.k = "str"
    THEN Ok([interface |-> v.s, limit |-> limit,
             optional |-> FALSE, scope |-> ScopeGlobal])
    ELSE IF v.k = "map"
    THEN ifaceSchema(IF "limit" \in DOMAIN v.m THEN v.m ELSE v.m @@ ("limit" :> Nil))
    ELSE Fail

\* ifaceExpC.Coerce: limit is the role's default, Nil or Num(1).
ifaceExpC(limit, v) ==
    IF v.k = "str"
    THEN Ok([interface |-> v.s, limit |-> limit,
             optional |-> FALSE, scope |-> ScopeGlobal])
    ELSE IF v.k = "map"
    THEN ifaceSchema(IF "limit" \in DOMAIN v.m THEN v.m ELSE v.m @@ ("limit" :> limit))
    ELSE Fail

\* schema.StringMap(ifaceExpander(limit))
relationsC(limit, v) ==
    IF v.k = "map" /\ \A name \in DOMAIN v.m : ifaceExpC(limit, v.m[name]).ok
    THEN Ok([name \in DOMAIN v.m |-> ifaceExpC(limit, v.m[name]).v])
    ELSE Fail
providesC(v) == relationsC(Nil, v)
requiresC(v) == relationsC(Num(1), v)
peersC(v) == relationsC(Num(1), v)

(***************************************************************************)
(* storageCountC.Coerce.  storageCountRE matches a string with exactly one *)
(* "-", one digit or more before it and any number of digits after it.     *)
(***************************************************************************)
AllDigits(s) == \A i \in 1..Len(s) : s[i] \in Digits

DigitVal(c) == CHOOSE n \in 0..9 : <<"0", "1", "2", "3", "4", "5", "6", "7", "8", "9">>[n + 1] = c

\* strconv.Atoi on a string of digits.  It fails only when the number does
\* not fit an int, which takes 19 digits or more.
RECURSIVE Atoi(_)
Atoi(s) == IF s = <<>> THEN 0 ELSE 10 * Atoi(SubSeq(s, 1, Len(s) - 1)) + DigitVal(s[Len(s)])
AtoiFits(s) == Len(s) <= 18

\* The submatches of storageCountRE in s: <<m, n>> as strings, or no match.
DashAt(s) == {i \in 1..Len(s) : s[i] = "-"}
storageCountRE(s) ==
    IF /\ Cardinality(DashAt(s)) = 1
       /\ s[1] # "-"
       /\ AllDigits(SubSeq(s, 1, (CHOOSE i \in DashAt(s) : TRUE) - 1))
       /\ AllDigits(SubSeq(s, (CHOOSE i \in DashAt(s) : TRUE) + 1, Len(s)))
    THEN LET d == CHOOSE i \in DashAt(s) : TRUE
         IN  [match |-> TRUE, m |-> SubSeq(s, 1, d - 1), n |-> SubSeq(s, d + 1, Len(s))]
    ELSE [match |-> FALSE, m |-> <<>>, n |-> <<>>]

\* Fault variant: a bare 0 is accepted.
storageCountC_AcceptsZero(v) ==
    IF v.k = "int"
    THEN IF v.i < 0 THEN Fail ELSE Ok(<<-1, v.i>>)
    ELSE IF v.k = "str"
    THEN LET match == storageCountRE(v.s)
         IN  IF ~match.match THEN Fail
             ELSE IF ~AtoiFits(match.m) THEN Fail
             ELSE IF match.n = <<>> THEN Ok(<<Atoi(match.m), -1>>)
             ELSE IF ~AtoiFits(match.n) THEN Fail
             ELSE Ok(<<Atoi(match.m), Atoi(match.n)>>)
    ELSE Fail

storageCountC(v) ==
    IF v.k = "int"
    THEN IF v.i <= 0 THEN Fail ELSE Ok(<<-1, v.i>>)
    ELSE IF v.k = "str"
    THEN LET match == storageCountRE(v.s)
         IN  IF ~match.match THEN Fail
             ELSE IF ~AtoiFits(match.m) THEN Fail
             ELSE IF match.n = <<>> THEN Ok(<<Atoi(match.m), -1>>)
             ELSE IF ~AtoiFits(match.n) THEN Fail
             ELSE Ok(<<Atoi(match.m), Atoi(match.n)>>)
    ELSE Fail

\* filesystemSchema, and schema.List(schema.OneOf(schema.String(), filesystemSchema)).
filesystemSchema(v) ==
    IF v.k # "map" THEN Fail
    ELSE LET type == Checked(FieldValue(v.m, "type", DfltNone),
            stringC(FieldValue(v.m, "type", DfltNone)))
             mkfs == Checked(FieldValue(v.m, "mkfs-options", DfltOmit),
            stringListC(FieldValue(v.m, "mkfs-options", DfltOmit)))
             opts == Checked(FieldValue(v.m, "options", DfltOmit),
            stringListC(FieldValue(v.m, "options", DfltOmit)))
         IN  IF type.ok /\ mkfs.ok /\ opts.ok
             THEN Ok([type |-> type.v, mkfs |-> mkfs, options |-> opts])
             ELSE Fail

filesystemElemC(v) == IF v.k = "str" THEN Ok([bare |-> TRUE, elem |-> v.s])
                      ELSE IF filesystemSchema(v).ok
                      THEN Ok([bare |-> FALSE, elem |-> filesystemSchema(v).v])
                      ELSE Fail

filesystemListC(v) ==
    IF v.k = "list" /\ \A i \in 1..Len(v.l) : filesystemElemC(v.l[i]).ok
    THEN Ok([i \in 1..Len(v.l) |-> filesystemElemC(v.l[i]).v])
    ELSE Fail

storageTypeC(v) == IF v.k = "str" /\ v.s \in {StorageBlock, StorageFilesystem}
                   THEN Ok(v.s) ELSE Fail

storageSchema(v) ==
    IF v.k # "map" THEN Fail
    ELSE LET required == Checked(FieldValue(v.m, "required", Bool(FALSE)),
            boolC(FieldValue(v.m, "required", Bool(FALSE))))
             shared == Checked(FieldValue(v.m, "shared", Bool(FALSE)),
            boolC(FieldValue(v.m, "shared", Bool(FALSE))))
             readOnly == Checked(FieldValue(v.m, "read-only", Bool(FALSE)),
            boolC(FieldValue(v.m, "read-only", Bool(FALSE))))
             persistent == Checked(FieldValue(v.m, "persistent", Bool(FALSE)),
            boolC(FieldValue(v.m, "persistent", Bool(FALSE))))
             count == Checked(FieldValue(v.m, "count", DfltOmit),
            storageCountC(FieldValue(v.m, "count", DfltOmit)))
             location == Checked(FieldValue(v.m, "location", DfltOmit),
            stringC(FieldValue(v.m, "location", DfltOmit)))
             type == Checked(FieldValue(v.m, "type", DfltNone),
            storageTypeC(FieldValue(v.m, "type", DfltNone)))
             filesystem == Checked(FieldValue(v.m, "filesystem", DfltOmit),
            filesystemListC(FieldValue(v.m, "filesystem", DfltOmit)))
         IN  IF /\ required.ok /\ shared.ok /\ readOnly.ok /\ persistent.ok
                /\ count.ok /\ location.ok /\ type.ok /\ filesystem.ok
             THEN Ok([required |-> required.v, shared |-> shared.v,
                      readOnly |-> readOnly.v, persistent |-> persistent.v,
                      count |-> count, location |-> location, type |-> type.v,
                      filesystem |-> filesystem])
             ELSE Fail

\* schema.StringMap(storageSchema)
storageMapC(v) ==
    IF v.k = "map" /\ \A name \in DOMAIN v.m : storageSchema(v.m[name]).ok
    THEN Ok([name \in DOMAIN v.m |-> storageSchema(v.m[name]).v])
    ELSE Fail

\* charmSchema: the result of each field of the top-level FieldMap.
charmSchema(f) ==
    [name |-> Checked(FieldValue(f, "name", DfltNone),
            stringC(FieldValue(f, "name", DfltNone))),
     summary |-> Checked(FieldValue(f, "summary", DfltNone),
            stringC(FieldValue(f, "summary", DfltNone))),
     description |-> Checked(FieldValue(f, "description", DfltNone),
            stringC(FieldValue(f, "description", DfltNone))),
     peers |-> Checked(FieldValue(f, "peers", DfltOmit),
            peersC(FieldValue(f, "peers", DfltOmit))),
     provides |-> Checked(FieldValue(f, "provides", DfltOmit),
            providesC(FieldValue(f, "provides", DfltOmit))),
     requires |-> Checked(FieldValue(f, "requires", DfltOmit),
            requiresC(FieldValue(f, "requires", DfltOmit))),
     revision |-> Checked(FieldValue(f, "revision", DfltOmit),
            intC(FieldValue(f, "revision", DfltOmit))),
     format |-> Checked(FieldValue(f, "format", Num(1)),
            intC(FieldValue(f, "format", Num(1)))),
     subordinate |-> Checked(FieldValue(f, "subordinate", DfltOmit),
            boolC(FieldValue(f, "subordinate", DfltOmit))),
     categories |-> Checked(FieldValue(f, "categories", DfltOmit),
            stringListC(FieldValue(f, "categories", DfltOmit))),
     tags |-> Checked(FieldValue(f, "tags", DfltOmit),
            stringListC(FieldValue(f, "tags", DfltOmit))),
     series |-> Checked(FieldValue(f, "series", DfltOmit),
            stringC(FieldValue(f, "series", DfltOmit))),
     storage |-> Checked(FieldValue(f, "storage", DfltOmit),
            storageMapC(FieldValue(f, "storage", DfltOmit)))]

\* The fields whose checker failed: the FieldMap reports one of them.
charmSchemaErrs(f) ==
    {SchemaErr(key) : key \in {k \in DOMAIN charmSchema(f) : ~charmSchema(f)[k].ok}}

(***************************************************************************)
(* Entity construction: parseStringList, parseRelations, parseFilesystem,  *)
(* parseStorage.  Each takes the schema's result for its field.            *)
(***************************************************************************)
parseStringList(list) == IF list.omit THEN NilList ELSE MkList(list.v)

parseRelations(relations, role) ==
    IF relations.omit THEN NilMap
    ELSE MkMap([name \in DOMAIN relations.v |->
            LET relMap == relations.v[name]
            IN  [Name |-> name,
                 Role |-> role,
                 Interface |-> relMap.interface,
                 Optional |-> relMap.optional,
                 Limit |-> IF relMap.limit.k = "nil" THEN 0 ELSE relMap.limit.i,
                 Scope |-> relMap.scope]])

parseFilesystem(filesystems) ==
    IF filesystems.omit THEN NilList
    ELSE MkList([i \in 1..Len(filesystems.v) |->
            LET e == filesystems.v[i]
            IN  IF e.bare
                THEN [Type |-> e.elem, MkfsOptions |-> NilList, MountOptions |-> NilList]
                ELSE [Type |-> e.elem.type,
                      MkfsOptions |-> parseStringList(e.elem.mkfs),
                      MountOptions |-> parseStringList(e.elem.options)]])

\* Fault variant: the placeholder minimum always becomes 0.
storageCounts_IgnoreRequired(count, required) ==
    LET c == IF ~count.omit THEN count.v ELSE <<-1, 1>>
    IN  IF c[1] = -1 THEN <<0, c[2]>> ELSE c

\* The counts of one storage entry: the pair from storageCountC, or the
\* placeholder <<-1, 1>> when there is no count; a minimum of -1 is then
\* resolved with required.
storageCounts(count, required) ==
    LET c == IF ~count.omit THEN count.v ELSE <<-1, 1>>
    IN  IF c[1] = -1
        THEN IF required THEN <<c[2], c[2]>> ELSE <<0, c[2]>>
        ELSE c

parseStorage(stores) ==
    IF stores.omit THEN NilMap
    ELSE MkMap([name \in DOMAIN stores.v |->
            LET storeMap == stores.v[name]
                counts == storageCounts(storeMap.count, storeMap.required)
            IN  [Name |-> name,
                 Type |-> storeMap.type,
                 Shared |-> storeMap.shared,
                 ReadOnly |-> storeMap.readOnly,
                 Persistent |-> storeMap.persistent,
                 CountMin |-> counts[1],
                 CountMax |-> counts[2],
                 Location |-> IF storeMap.location.omit THEN <<>> ELSE storeMap.location.v,
                 Filesystem |-> parseFilesystem(storeMap.filesystem)]])

\* The record ReadMeta builds from the schema's output m, before Check.
buildMeta(m) ==
    [Name |-> m.name.v,
     Summary |-> m.summary.v,
     Description |-> m.description.v,
     Provides |-> parseRelations(m.provides, RoleProvider),
     Requires |-> parseRelations(m.requires, RoleRequirer),
     Peers |-> parseRelations(m.peers, RolePeer),
     Format |-> m.format.v,
     Categories |-> parseStringList(m.categories),
     Tags |-> parseStringList(m.tags),
     Subordinate |-> IF m.subordinate.omit THEN FALSE ELSE m.subordinate.v,
     OldRevision |-> IF m.revision.omit THEN 0 ELSE m.revision.v,
     Series |-> IF m.series.omit THEN <<>> ELSE m.series.v,
     Storage |-> parseStorage(m.storage)]

(***************************************************************************)
(* ReadMeta: the set of (meta, err) pairs it can return for document d.    *)
(* d.raw tells whether reading the bytes and parsing the YAML succeed.     *)
(***************************************************************************)
Result(m, e) == [meta |-> m, err |-> e]

\* Fault variant: the record is returned along with the error of Check.
ReadMeta_KeepsRecord(d) ==
    IF d.raw = "readerr" THEN {Result(NoMeta, ReadErr("read"))}
    ELSE IF d.raw = "yamlerr" THEN {Result(NoMeta, ReadErr("yaml"))}
    ELSE IF charmSchemaErrs(d.tree) # {}
    THEN {Result(NoMeta, e) : e \in charmSchemaErrs(d.tree)}
    ELSE LET m == buildMeta(charmSchema(d.tree))
         IN  {Result(m, e) : e \in Check(m)}

ReadMeta(d) ==
    IF d.raw = "readerr" THEN {Result(NoMeta, ReadErr("read"))}
    ELSE IF d.raw = "yamlerr" THEN {Result(NoMeta, ReadErr("yaml"))}
    ELSE IF charmSchemaErrs(d.tree) # {}
    THEN {Result(NoMeta, e) : e \in charmSchemaErrs(d.tree)}
    ELSE LET m == buildMeta(charmSchema(d.tree))
         IN  {IF e = NoErr THEN Result(m, NoErr) ELSE Result(NoMeta, e) : e \in Check(m)}

(***************************************************************************)
(* marshaledRelation.GetYAML and Meta.GetYAML.  Fields tagged omitempty    *)
(* are left out when empty: a map or list without elements (nil or not),   *)
(* an empty string, false, a nil pointer.                                  *)
(***************************************************************************)
\* Fault variant: the shorthand is never used.
marshaledRelation_AlwaysMap(r) ==
    LET noLimit == IF r.Role = RoleProvider THEN 0 ELSE 1
    IN  Map(("interface" :> Str(r.Interface))
            @@ (IF r.Limit # noLimit THEN "limit" :> Num(r.Limit) ELSE EmptyMap)
            @@ (IF r.Optional THEN "optional" :> Bool(TRUE) ELSE EmptyMap)
            @@ (IF r.Scope # ScopeGlobal /\ r.Scope # <<>>
                THEN "scope" :> Str(r.Scope) ELSE EmptyMap))

marshaledRelation(r) ==
    LET noLimit == IF r.Role = RoleProvider THEN 0 ELSE 1
    IN  IF ~r.Optional /\ r.Limit = noLimit /\ r.Scope = ScopeGlobal
        THEN Str(r.Interface)
        ELSE Map(("interface" :> Str(r.Interface))
                 @@ (IF r.Limit # noLimit THEN "limit" :> Num(r.Limit) ELSE EmptyMap)
                 @@ (IF r.Optional THEN "optional" :> Bool(TRUE) ELSE EmptyMap)
                 @@ (IF r.Scope # ScopeGlobal /\ r.Scope # <<>>
                     THEN "scope" :> Str(r.Scope) ELSE EmptyMap))

marshaledRelations(rs) == [name \in DOMAIN rs.m |-> marshaledRelation(rs.m[name])]

OmitEmptyMap(key, f) == IF DOMAIN f = {} THEN EmptyMap ELSE key :> Map(f)
OmitEmptyList(key, list) ==
    IF Len(list.l) = 0 THEN EmptyMap
    ELSE key :> List([i \in 1..Len(list.l) |-> Str(list.l[i])])

GetYAML(m) ==
    [raw |-> "ok",
     tree |-> ("name" :> Str(m.Name))
              @@ ("summary" :> Str(m.Summary))
              @@ ("description" :> Str(m.Description))
              @@ OmitEmptyMap("provides", marshaledRelations(m.Provides))
              @@ OmitEmptyMap("requires", marshaledRelations(m.Requires))
              @@ OmitEmptyMap("peers", marshaledRelations(m.Peers))
              @@ OmitEmptyList("categories", m.Categories)
              @@ OmitEmptyList("tags", m.Tags)
              @@ (IF m.Subordinate THEN "subordinate" :> Bool(TRUE) ELSE EmptyMap)
              @@ (IF m.Series # <<>> THEN "series" :> Str(m.Series) ELSE EmptyMap)]

(***************************************************************************)
(* The inputs: documents for ReadMeta, records for Check.                  *)
(***************************************************************************)
Mappings == {"provides", "requires", "peers"}
RoleOf(at) == CASE at = "provides" -> RoleProvider
                [] at = "requires" -> RoleRequirer
                [] at = "peers" -> RolePeer
\* The relation mapping of record m that the key at names.
RelationsAt(m, at) == CASE at = "provides" -> m.Provides
                        [] at = "requires" -> m.Requires
                        [] at = "peers" -> m.Peers
BaseTree == ("name" :> Str(s_name)) @@ ("summary" :> Str(s_summary))
            @@ ("description" :> Str(s_description))
Doc(tree) == [raw |-> "ok", tree |-> tree]
NoDoc == [raw |-> "none", tree |-> EmptyMap]

\* Relations of a document: at most MaxDocRels (mapping, name) slots, each
\* with a shorthand string, a full map or a value of the wrong kind.
DocRelNames == {s_db, s_jujuInfo}
DocRelVals ==
    {Str(s_http), Str(s_jujuInfo), Num(7), Map("limit" :> Num(1)),
     Map(("interface" :> Str(s_http)) @@ ("scope" :> Str(s_web)))}
    \cup {Map(("interface" :> Str(s_http)) @@ Opt("limit", l) @@ Opt("scope", sc)
              @@ Opt("optional", o)) :
            l \in {Absent, Nil, Num(0), Num(1), Num(2)},
            sc \in {Absent, Str(ScopeGlobal), Str(ScopeContainer)},
            o \in {Absent, Bool(TRUE)}}
DocSlots == Mappings \X DocRelNames
DocRelTree(S, f) ==
    LET keys(at) == {sl[2] : sl \in {x \in S : x[1] = at}}
        one(at) == IF keys(at) = {} THEN EmptyMap
                   ELSE at :> Map([name \in keys(at) |-> f[<<at, name>>]])
    IN  one("provides") @@ one("requires") @@ one("peers")

\* Storage of a document.
StoreNames == {<<"d", "a", "t", "a">>, <<"l", "o", "g">>}
CountChars == {"0", "1", "2", "-", "a"}
CountStrs == UNION {[1..n -> CountChars] : n \in 1..MaxCountLen}
DocCounts == {Absent, Bool(TRUE), Num(-1), Num(0), Num(1), Num(2)}
             \cup {Str(s) : s \in CountStrs}
DocStore(type, required, count, location, filesystem) ==
    Map(Opt("type", type) @@ Opt("required", required) @@ Opt("count", count)
        @@ Opt("location", location) @@ Opt("filesystem", filesystem))
DocFilesystems ==
    {Absent, List(<<>>), List(<<Str(s_ext4)>>),
     List(<<Map(("type" :> Str(s_ext4)) @@ ("options" :> List(<<Str(s_web)>>)))>>)}
DocStoreVals ==
    {DocStore(type, required, count, location, filesystem) :
        type \in {Absent, Str(StorageBlock), Str(StorageFilesystem)},
        required \in {Absent, Bool(TRUE)},
        count \in {Absent, Num(2), Str(<<"1", "-">>)},
        location \in {Absent, Str(s_srv)},
        filesystem \in DocFilesystems}

\* A subordinate needs this relation to pass Check.
ContainerRequires ==
    "requires" :> Map(s_db :> Map(("interface" :> Str(s_http))
                                  @@ ("scope" :> Str(ScopeContainer))))

InitRelations ==
    \E S \in {X \in SUBSET DocSlots : Cardinality(X) <= MaxDocRels} :
    \E f \in [S -> DocRelVals] :
    \E sub \in {Absent, Bool(TRUE), Bool(FALSE)} :
        doc = Doc(BaseTree @@ Opt("subordinate", sub) @@ DocRelTree(S, f))

InitCounts ==
    \E type \in {Str(StorageBlock), Str(StorageFilesystem)} :
    \E required \in {Absent, Bool(TRUE), Bool(FALSE)} :
    \E count \in DocCounts :
        doc = Doc(BaseTree @@ ("storage" :> Map(<<"d", "a", "t", "a">> :>
                    DocStore(type, required, count, Absent, Absent))))

InitStorage ==
    \E N \in {X \in SUBSET StoreNames : Cardinality(X) <= MaxStores} :
    \E f \in [N -> DocStoreVals] :
        doc = Doc(BaseTree @@ ("storage" :> Map(f)))

InitAttributes ==
    \E raw \in {"ok", "readerr", "yamlerr"} :
    \E name \in {Absent, Str(s_name)} :
    \E format \in {Absent, Num(2), Str(s_web)} :
    \E revision \in {Absent, Num(3)} :
    \E categories \in {Absent, List(<<>>), List(<<Str(s_web)>>)} :
    \E tags \in {Absent, List(<<Str(s_web), Str(s_db)>>)} :
    \E series \in {Absent, Str(s_precise), Str(s_badSeries)} :
    \E sub \in {Absent, Bool(TRUE)} :
    \E rels \in {EmptyMap, ContainerRequires} :
        /\ raw # "ok" => /\ format = Absent /\ revision = Absent /\ categories = Absent
                         /\ tags = Absent /\ series = Absent /\ sub = Absent
                         /\ rels = EmptyMap /\ name # Absent
        /\ doc = [raw |-> raw,
                  tree |-> Opt("name", name) @@ ("summary" :> Str(s_summary))
                           @@ ("description" :> Str(s_description))
                           @@ Opt("format", format) @@ Opt("revision", revision)
                           @@ Opt("categories", categories) @@ Opt("tags", tags)
                           @@ Opt("series", series) @@ Opt("subordinate", sub) @@ rels]

Init ==
    /\ InitRelations \/ InitCounts \/ InitStorage \/ InitAttributes
    /\ meta = NoMeta
    /\ err = NoErr
    /\ pc = "input"
    /\ prev = NoMeta
    /\ round = 0

\* Records for Check: any Meta value, not only those ReadMeta builds.
RelNames == {s_db, s_juju, s_jujuInfo}
WrongRole(at) == IF at = "provides" THEN RolePeer ELSE RoleProvider
RelVariants ==
    {[shape |-> "ok", iface |-> i, scope |-> sc] :
        i \in {s_http, s_jujuInfo}, sc \in {ScopeGlobal, ScopeContainer}}
    \cup {[shape |-> sh, iface |-> s_http, scope |-> ScopeGlobal] :
            sh \in {"badname", "badrole"}}
Rel(at, name, v) ==
    [Name |-> IF v.shape = "badname" THEN s_web ELSE name,
     Role |-> IF v.shape = "badrole" THEN WrongRole(at) ELSE RoleOf(at),
     Interface |-> v.iface,
     Optional |-> FALSE,
     Limit |-> IF at = "provides" THEN 0 ELSE 1,
     Scope |-> v.scope]
Slots == Mappings \X RelNames
RelMap(at, S, f) ==
    LET keys == {sl[2] : sl \in {x \in S : x[1] = at}}
    IN  IF keys = {} THEN NilMap
        ELSE MkMap([name \in keys |-> Rel(at, name, f[<<at, name>>])])
Store(name, type, counts, location, filesystem) ==
    [Name |-> name, Type |-> type, Shared |-> FALSE, ReadOnly |-> FALSE,
     Persistent |-> FALSE, CountMin |-> counts[1], CountMax |-> counts[2],
     Location |-> location, Filesystem |-> filesystem]
Ext4 == [Type |-> s_ext4, MkfsOptions |-> NilList, MountOptions |-> NilList]
Stores(name) ==
    {Store(name, type, counts, location, filesystem) :
        type \in {<<>>, StorageBlock, StorageFilesystem},
        counts \in {<<0, 1>>, <<-1, 1>>, <<0, 0>>, <<0, -2>>, <<1, -1>>},
        location \in {<<>>, s_srv},
        filesystem \in {NilList, MkList(<<>>), MkList(<<Ext4>>)}}
Record(sub, series, provides, requires, peers, storage) ==
    [Name |-> s_name, Summary |-> s_summary, Description |-> s_description,
     Provides |-> provides, Requires |-> requires, Peers |-> peers,
     Format |-> 1, Categories |-> NilList, Tags |-> NilList,
     Subordinate |-> sub, OldRevision |-> 0, Series |-> series, Storage |-> storage]

InitCheckRelations ==
    \E S \in {X \in SUBSET Slots : Cardinality(X) <= MaxRels} :
    \E f \in [S -> RelVariants] :
    \E sub \in BOOLEAN :
    \E series \in {<<>>, s_badSeries} :
        meta = Record(sub, series, RelMap("provides", S, f), RelMap("requires", S, f),
                      RelMap("peers", S, f), NilMap)

\* Storage-heavy records: the storage entries vary, the rest is one of a
\* few settings that pass or fail the checks made before the storage loop.
OkVariant == [shape |-> "ok", iface |-> s_http, scope |-> ScopeGlobal]
ContainerVariant == [shape |-> "ok", iface |-> s_http, scope |-> ScopeContainer]
Settings ==
    {[sub |-> FALSE, series |-> <<>>, provides |-> NilMap, requires |-> NilMap],
     [sub |-> FALSE, series |-> s_precise, provides |-> MkMap(EmptyMap),
      requires |-> MkMap(EmptyMap)],
     [sub |-> FALSE, series |-> s_badSeries, provides |-> NilMap, requires |-> NilMap],
     [sub |-> TRUE, series |-> <<>>, provides |-> NilMap,
      requires |-> MkMap(s_db :> Rel("requires", s_db, ContainerVariant))],
     [sub |-> TRUE, series |-> s_badSeries, provides |-> NilMap, requires |-> MkMap(EmptyMap)],
     [sub |-> TRUE, series |-> <<>>, provides |-> NilMap,
      requires |-> MkMap(s_db :> Rel("requires", s_db, OkVariant))],
     [sub |-> FALSE, series |-> s_badSeries,
      provides |-> MkMap(s_juju :> Rel("provides", s_juju, OkVariant)),
      requires |-> NilMap]}

InitCheckStorage ==
    \E N \in {X \in SUBSET StoreNames : Cardinality(X) <= MaxStores} :
    \E f \in {g \in [N -> UNION {Stores(n) : n \in N}] : \A n \in N : g[n].Name = n} :
    \E s \in Settings :
        meta = Record(s.sub, s.series, s.provides, s.requires, NilMap,
                      IF N = {} THEN NilMap ELSE MkMap(f))

InitCheck ==
    /\ InitCheckRelations \/ InitCheckStorage
    /\ doc = NoDoc
    /\ err = NoErr
    /\ pc = "built"
    /\ prev = NoMeta
    /\ round = 0

(***************************************************************************)
(* The operations.                                                         *)
(***************************************************************************)
\* meta, err := ReadMeta(doc)
DoReadMeta ==
    /\ pc = "input"
    /\ \E r \in ReadMeta(doc) :
        /\ meta' = r.meta
        /\ err' = r.err
    /\ pc' = "read"
    /\ UNCHANGED <<doc, prev, round>>

\* doc := yaml.Marshal(meta), which calls meta.GetYAML
DoGetYAML ==
    /\ pc = "read"
    /\ meta # NoMeta
    /\ round < MaxRounds
    /\ doc' = GetYAML(meta)
    /\ prev' = meta
    /\ round' = round + 1
    /\ pc' = "input"
    /\ UNCHANGED <<meta, err>>

\* err := meta.Check()
DoCheck ==
    /\ pc = "built"
    /\ \E e \in Check(meta) : err' = e
    /\ pc' = "checked"
    /\ UNCHANGED <<doc, meta, prev, round>>

Next == DoReadMeta \/ DoGetYAML

Spec == Init /\ [][Next]_vars

NextCheck == DoCheck

SpecCheck == InitCheck /\ [][NextCheck]_vars

(***************************************************************************)
(* C1.  Round trip: when ReadMeta has decoded a document that GetYAML      *)
(* produced from a decoded record, it succeeds and returns a record equal  *)
(* to the encoded one in every field.                                      *)
(***************************************************************************)
C1_RoundTrip ==
    (pc = "read" /\ round >= 1) => (err = NoErr /\ meta = prev)

(***************************************************************************)
(* C2.  ReadMeta returns either an error and no record, or a record and no *)
(* error; a returned record passes Check; and when Check fails on the      *)
(* constructed record, its error is returned and no record.                *)
(***************************************************************************)
C2_OneOutcome ==
    pc = "read" =>
        /\ \/ (meta = NoMeta /\ err # NoErr)
           \/ (meta # NoMeta /\ err = NoErr /\ Check(meta) = {NoErr})
        /\ (doc.raw = "ok" /\ charmSchemaErrs(doc.tree) = {}
                /\ NoErr \notin Check(buildMeta(charmSchema(doc.tree))))
            => (meta = NoMeta /\ err \in Check(buildMeta(charmSchema(doc.tree))))

C2_Witness ==
    /\ pc = "read"
    /\ doc.raw = "ok"
    /\ charmSchemaErrs(doc.tree) = {}
    /\ err.class = "charm"
    /\ meta = NoMeta

(***************************************************************************)
(* C3.  The counts of a decoded storage entry as a function of its count   *)
(* field and required flag: "m-n" gives (m, n), "m-" gives (m, -1), a bare *)
(* m > 0 gives (m, m) when required and (0, m) when not, no count is a     *)
(* bare 1, and a bare m <= 0 or a string of neither form is a schema error *)
(* with no record.  Stated of the record ReadMeta constructs and of the    *)
(* record it returns.                                                      *)
(***************************************************************************)
C3_Pow10(n) == CASE n = 0 -> 1 [] n = 1 -> 10 [] n = 2 -> 100 [] n = 3 -> 1000
                 [] n = 4 -> 10000 [] OTHER -> 100000
C3_Sum(f, n) == LET S[i \in 0..n] == IF i = 0 THEN 0 ELSE S[i - 1] + f[i] IN S[n]
C3_Number(s) ==
    C3_Sum([i \in 1..Len(s) |-> C3_Pow10(Len(s) - i)
                * (CHOOSE d \in 0..9 : ToString(d) = s[i])], Len(s))
C3_IsNumber(s) == Len(s) >= 1 /\ \A i \in 1..Len(s) : s[i] \in Digits
\* s is m ++ "-" ++ n with m a number and n a number or empty
C3_Splits(s) ==
    {i \in 1..Len(s) : /\ s[i] = "-"
                       /\ C3_IsNumber(SubSeq(s, 1, i - 1))
                       /\ \/ i = Len(s)
                          \/ C3_IsNumber(SubSeq(s, i + 1, Len(s)))}
C3_Required(store) ==
    "required" \in DOMAIN store.m /\ store.m["required"] = Bool(TRUE)
\* the counts the claim gives for a storage entry of the document, or "error"
C3_Expected(store) ==
    LET required == C3_Required(store)
        bare(m) == IF required THEN <<m, m>> ELSE <<0, m>>
    IN  IF "count" \notin DOMAIN store.m THEN bare(1)
        ELSE LET c == store.m["count"]
             IN  IF c.k = "int" THEN (IF c.i > 0 THEN bare(c.i) ELSE <<"error">>)
                 ELSE IF c.k = "str" /\ C3_Splits(c.s) # {}
                 THEN LET i == CHOOSE j \in C3_Splits(c.s) : TRUE
                      IN  <<C3_Number(SubSeq(c.s, 1, i - 1)),
                            IF i = Len(c.s) THEN -1
                            ELSE C3_Number(SubSeq(c.s, i + 1, Len(c.s)))>>
                 ELSE <<"error">>
C3_DocStores == IF doc.raw = "ok" /\ "storage" \in DOMAIN doc.tree
                THEN doc.tree["storage"].m ELSE EmptyMap
C3_Counts(store) == <<store.CountMin, store.CountMax>>

C3_CountFunction ==
    (pc = "read" /\ round = 0) =>
        \A name \in DOMAIN C3_DocStores :
            LET want == C3_Expected(C3_DocStores[name])
            IN  IF Len(want) = 1
                THEN meta = NoMeta /\ err.class = "metadata"
                ELSE /\ meta # NoMeta => C3_Counts(meta.Storage.m[name]) = want
                     /\ err.class # "metadata" =>
                            C3_Counts(buildMeta(charmSchema(doc.tree)).Storage.m[name]) = want

C3_Witness ==
    /\ pc = "read"
    /\ round = 0
    /\ meta # NoMeta
    /\ \E name \in DOMAIN C3_DocStores :
        /\ "count" \in DOMAIN C3_DocStores[name].m
        /\ C3_DocStores[name].m["count"] = Str(<<"1", "-", "2">>)
        /\ C3_Counts(meta.Storage.m[name]) = <<1, 2>>

(***************************************************************************)
(* C7.  Relation shorthand: a relation written as the bare string s is     *)
(* constructed as the Relation with interface s, optional false, scope     *)
(* Global and the role's default limit (0 for Provider, 1 for Requirer and *)
(* Peer), the same as for the map {interface: s}, and GetYAML encodes      *)
(* every such Relation as the bare string again.                           *)
(***************************************************************************)
C7_DefaultLimit(at) == IF at = "provides" THEN 0 ELSE 1
C7_Shorthand(at) ==
    IF doc.raw = "ok" /\ at \in DOMAIN doc.tree /\ doc.tree[at].k = "map"
    THEN {name \in DOMAIN doc.tree[at].m : doc.tree[at].m[name].k = "str"}
    ELSE {}
\* the document with the shorthand of one relation written as a map
C7_AsMap(at, name) ==
    [doc EXCEPT !.tree[at].m[name] = Map("interface" :> Str(doc.tree[at].m[name].s))]
C7_IsDefault(r, at) ==
    ~r.Optional /\ r.Scope = ScopeGlobal /\ r.Limit = C7_DefaultLimit(at)

C7_RelationShorthand ==
    /\ (pc = "read" /\ round = 0 /\ err.class \notin {"metadata", "read"}) =>
        \A at \in Mappings : \A name \in C7_Shorthand(at) :
            LET built == buildMeta(charmSchema(doc.tree))
                r == RelationsAt(built, at).m[name]
            IN  /\ r = [Name |-> name, Role |-> RoleOf(at),
                        Interface |-> doc.tree[at].m[name].s, Optional |-> FALSE,
                        Limit |-> C7_DefaultLimit(at), Scope |-> ScopeGlobal]
                /\ meta # NoMeta => RelationsAt(meta, at).m[name] = r
                /\ \A res \in ReadMeta(C7_AsMap(at, name)) :
                        /\ (res.meta = NoMeta) = (meta = NoMeta)
                        /\ res.meta # NoMeta => RelationsAt(res.meta, at).m[name] = r
    /\ (pc = "input" /\ round >= 1) =>
        \A at \in Mappings : \A name \in DOMAIN RelationsAt(prev, at).m :
            LET r == RelationsAt(prev, at).m[name]
            IN  C7_IsDefault(r, at) => doc.tree[at].m[name] = Str(r.Interface)

C7_Witness ==
    /\ pc = "input"
    /\ round >= 1
    /\ s_db \in DOMAIN prev.Requires.m
    /\ C7_IsDefault(prev.Requires.m[s_db], "requires")
    /\ doc.tree["requires"].m[s_db] = Str(s_http)

(***************************************************************************)
(* The rules of Check, stated on the record alone, for the claims below.   *)
(***************************************************************************)
V_Reserved(s) ==
    \/ s = <<"j", "u", "j", "u">>
    \/ Len(s) >= 5 /\ \A i \in 1..5 : s[i] = <<"j", "u", "j", "u", "-">>[i]
V_Exempt(m, at, rel) ==
    m.Subordinate /\ at = "requires" /\ rel.Scope = ScopeContainer
V_Names(m, at) == DOMAIN RelationsAt(m, at).m
V_Before(at) == CASE at = "provides" -> {}
                  [] at = "requires" -> {"provides"}
                  [] at = "peers" -> {"provides", "requires"}
\* a fault of one relation other than a duplicated name
V_Fault(m, at, name) ==
    LET rel == RelationsAt(m, at).m[name]
    IN  \/ rel.Name # name
        \/ rel.Role # RoleOf(at)
        \/ V_Reserved(name) /\ ~V_Exempt(m, at, rel)
        \/ at # "requires" /\ V_Reserved(rel.Interface)
V_Dup(m, at, name) == \E b \in V_Before(at) : name \in V_Names(m, b)
V_RelViolated(m, at) ==
    \E name \in V_Names(m, at) : V_Fault(m, at, name) \/ V_Dup(m, at, name)
V_NoContainer(m) ==
    \A name \in DOMAIN m.Requires.m : m.Requires.m[name].Scope # ScopeContainer
V_SubViolated(m) == m.Subordinate /\ V_NoContainer(m)
V_SeriesViolated(m) == m.Series # <<>> /\ ~IsValidSeries(m.Series)
V_Coupled(store) ==
    (store.Location # <<>> \/ ~store.Filesystem.nil) => store.Type = StorageFilesystem
V_CountsValid(store) ==
    store.CountMin >= 0 /\ (store.CountMax = -1 \/ store.CountMax >= 1)
V_StorageViolated(m) ==
    \E name \in DOMAIN m.Storage.m :
        LET store == m.Storage.m[name]
        IN  ~V_Coupled(store) \/ store.Type = <<>> \/ ~V_CountsValid(store)
\* the first rule group, in the order of Check, that m violates
V_First(m) ==
    IF V_RelViolated(m, "provides") THEN "provides"
    ELSE IF V_RelViolated(m, "requires") THEN "requires"
    ELSE IF V_RelViolated(m, "peers") THEN "peers"
    ELSE IF V_SubViolated(m) THEN "subordinate"
    ELSE IF V_SeriesViolated(m) THEN "series"
    ELSE IF V_StorageViolated(m) THEN "storage"
    ELSE "none"

(***************************************************************************)
(* C4.  Check rejects every record with a relation, in any mapping, named  *)
(* "juju" or "juju-...", unless the record is subordinate, the relation is *)
(* in requires and its scope is Container; in that case the reserved name  *)
(* is not what rejects the record.                                         *)
(***************************************************************************)
C4_ReservedName ==
    pc = "checked" =>
        /\ \A at \in Mappings : \A name \in V_Names(meta, at) :
            LET rel == RelationsAt(meta, at).m[name]
            IN  ((V_Reserved(name) \/ V_Reserved(rel.Name)) /\ ~V_Exempt(meta, at, rel))
                    => err # NoErr
        /\ err.kind = "reserved relation name" =>
                ~V_Exempt(meta, err.at, RelationsAt(meta, err.at).m[err.name])
        /\ (V_First(meta) = "none") => err = NoErr

C4_Witness ==
    /\ pc = "checked"
    /\ ~meta.Subordinate
    /\ s_jujuInfo \in V_Names(meta, "requires")
    /\ meta.Requires.m[s_jujuInfo].Scope = ScopeContainer
    /\ err.kind = "reserved relation name"
    /\ err.at = "requires"

(***************************************************************************)
(* C5 as claimed.  A subordinate record without a Container-scoped         *)
(* requires relation fails with the container-scope error, and no other    *)
(* record fails with it.                                                   *)
(***************************************************************************)
C5_AlwaysContainerScopeError ==
    pc = "checked" =>
        /\ V_SubViolated(meta) => err.kind = "container scope"
        /\ err.kind = "container scope" => V_SubViolated(meta)

(***************************************************************************)
(* C5 as amended.  A subordinate record without a Container-scoped         *)
(* requires relation always fails; its error is the container-scope error  *)
(* when the relation checks on provides, requires and peers all pass, and  *)
(* else the error of the first relation check that fails.  No other record *)
(* fails with the container-scope error.                                   *)
(***************************************************************************)
C5_Subordinate ==
    pc = "checked" =>
        /\ V_SubViolated(meta) => err # NoErr
        /\ (V_SubViolated(meta) /\ \A at \in Mappings : ~V_RelViolated(meta, at))
                => err.kind = "container scope"
        /\ (V_SubViolated(meta) /\ \E at \in Mappings : V_RelViolated(meta, at))
                => err.at \in Mappings
        /\ err.kind = "container scope" => V_SubViolated(meta)

C5_Witness ==
    /\ pc = "checked"
    /\ meta.Subordinate
    /\ V_Names(meta, "requires") # {}
    /\ V_NoContainer(meta)
    /\ err.kind = "container scope"

(***************************************************************************)
(* C6.  A record in which one name is a key of two relation mappings is    *)
(* rejected; the error is the duplicated-relation-name error, raised at    *)
(* the first mapping that repeats a name, when no other relation check     *)
(* fails in that mapping or the ones before it.                            *)
(***************************************************************************)
C6_UniqueNames ==
    pc = "checked" =>
        \A at \in Mappings :
            (\E name \in V_Names(meta, at) : V_Dup(meta, at, name)) =>
                /\ err # NoErr
                /\ (\A b \in V_Before(at) \cup {at} : \A n \in V_Names(meta, b) :
                        ~V_Fault(meta, b, n) /\ (b # at => ~V_Dup(meta, b, n)))
                    => /\ err.kind = "duplicated relation name"
                       /\ err.at = at
                       /\ V_Dup(meta, at, err.name)

C6_Witness ==
    /\ pc = "checked"
    /\ s_db \in V_Names(meta, "provides")
    /\ s_db \in V_Names(meta, "peers")
    /\ err.kind = "duplicated relation name"
    /\ err.at = "peers"
    /\ err.name = s_db

(***************************************************************************)
(* C8.  Check rejects every record with a storage entry that has a         *)
(* location, or a filesystem list that is set, and a type other than       *)
(* Filesystem; an entry of type Filesystem with valid counts is never the  *)
(* entry an error is about.                                                *)
(***************************************************************************)
C8_TypeCoupling ==
    pc = "checked" =>
        /\ (\E name \in DOMAIN meta.Storage.m : ~V_Coupled(meta.Storage.m[name]))
                => err # NoErr
        /\ err.at = "storage" =>
                LET store == meta.Storage.m[err.name]
                IN  ~(store.Type = StorageFilesystem /\ V_CountsValid(store))
        /\ (V_First(meta) \in {"none", "storage"}
                /\ \A name \in DOMAIN meta.Storage.m :
                       LET store == meta.Storage.m[name]
                       IN  store.Type = StorageFilesystem /\ V_CountsValid(store))
            => err = NoErr

C8_Witness ==
    /\ pc = "checked"
    /\ \E name \in DOMAIN meta.Storage.m :
        /\ meta.Storage.m[name].Location = <<>>
        /\ ~meta.Storage.m[name].Filesystem.nil
        /\ meta.Storage.m[name].Type = StorageBlock
        /\ err = CheckErr("filesystem", "storage", name)

(***************************************************************************)
(* C9 as claimed.  Check does not reject a record because a relation in    *)
(* provides for which IsImplicit holds uses the reserved name.             *)
(***************************************************************************)
C9_ImplicitBypasses ==
    pc = "checked" =>
        ~(/\ err.kind = "reserved relation name"
          /\ err.at = "provides"
          /\ IsImplicit(meta.Provides.m[err.name]))

(***************************************************************************)
(* C9 as amended.  IsImplicit does not bypass the reserved-name check:     *)
(* Check rejects, in its checks on provides, every record whose provides   *)
(* holds a relation for which IsImplicit holds, and with the               *)
(* reserved-relation-name error for that relation when it is stored under  *)
(* its own name and no other relation of provides fails a check.           *)
(***************************************************************************)
C9_ImplicitRejected ==
    pc = "checked" =>
        \A name \in V_Names(meta, "provides") :
            IsImplicit(meta.Provides.m[name]) =>
                /\ err # NoErr
                /\ err.at = "provides"
                /\ (name = meta.Provides.m[name].Name
                        /\ \A n \in V_Names(meta, "provides") \ {name} :
                               ~V_Fault(meta, "provides", n))
                    => err = CheckErr("reserved relation name", "provides", name)

C9_Witness ==
    /\ pc = "checked"
    /\ s_jujuInfo \in V_Names(meta, "provides")
    /\ IsImplicit(meta.Provides.m[s_jujuInfo])
    /\ err = CheckErr("reserved relation name", "provides", s_jujuInfo)

(***************************************************************************)
(* C10.  Check returns the error of the first rule group that the record   *)
(* violates, in the order provides, requires, peers, subordinate, series,  *)
(* storage, returns no error when it violates none, and leaves the record  *)
(* unchanged.                                                              *)
(***************************************************************************)
C10_FirstFailure ==
    [][(pc = "built" /\ pc' = "checked") =>
            (meta' = meta /\ err'.at = V_First(meta) /\ (err' = NoErr) = (V_First(meta) = "none"))]_vars

C10_Witness ==
    /\ pc = "checked"
    /\ V_SubViolated(meta)
    /\ V_SeriesViolated(meta)
    /\ V_StorageViolated(meta)
    /\ err.at = "subordinate"

(***************************************************************************)
(* C11.  In every record a successful ReadMeta returns, the counts of each *)
(* storage entry form a range: CountMin >= 0, CountMax is -1 or at least   *)
(* 1, and CountMin <= CountMax unless CountMax is -1.                      *)
(***************************************************************************)
C11_WellFormedRange ==
    (pc = "read" /\ meta # NoMeta) =>
        \A name \in DOMAIN meta.Storage.m :
            LET store == meta.Storage.m[name]
            IN  /\ store.CountMin >= 0
                /\ store.CountMax = -1 \/ store.CountMax >= 1
                /\ store.CountMax # -1 => store.CountMin <= store.CountMax

====
